---- MODULE Spec2Model ----
(***************************************************************************)
(* The dialog-tree model of the phone-menu builder: the configuration held *)
(* by the useAssistantConfig hook, its persisted copy, the selected node,  *)
(* and the structural operations of lib/assistant-utils.                   *)
(*                                                                         *)
(* Identifiers are modelled as integers: uuidv4() returns 1, 2, 3, ... and *)
(* never repeats a value; 0 stands for the empty string '' (a falsy id)    *)
(* and -1 for JavaScript's null.                                           *)
(***************************************************************************)
EXTENDS Integers, Sequences, FiniteSets, TLC

\* ---------------------------------------------------------------- bounds
\* number of node ids uuidv4() may hand out when calls take any argument
MaxIds == 4
\* number of node ids uuidv4() may hand out when calls only name present nodes
MaxTreeIds == 5
\* largest value of the wall clock (new Date())
MaxTime == 1
\* number of node ids uuidv4() may hand out while the node editor is in use
MaxEditIds == 3
\* largest number of options the node editor gives one node
MaxOptions == 2
\* number of node ids uuidv4() may hand out while configurations are imported
\* and reloaded
MaxIoIds == 3
\* largest number of nodes of a collection with arbitrary parent pointers
MaxCorruptNodes == 3

\* ------------------------------------------------------- value encodings
\* parentId: string | null  -- the null of the root
null == 0 - 1
\* the empty string used as an id: falsy in `!node.parentId`
EmptyId == 0
\* a well-formed id that names no node, as an argument of a call
NoSuchId == 0 - 2
\* an optional field that is absent (inputMode?: InputMode)
undefined == "undefined"

VARIABLES
    config,          \* useState<AssistantConfig>: the current snapshot
    storage,         \* localStorage[STORAGE_KEY]: << >> when unset, else <<text>>
    selectedNodeId,  \* useState<string | null>
    uuidCount,       \* how many node ids uuidv4() has handed out so far
    now,             \* the wall clock read by new Date()
    lastCall         \* the last call made on the hook and its outcome

vars == <<config, storage, selectedNodeId, uuidCount, now, lastCall>>

\* ------------------------------------------------------ array primitives
\* Array.prototype.find by id: index of the first node with that id, 0 if none
RECURSIVE findIndexFrom(_, _, _)
findIndexFrom(nodes, id, i) ==
    IF i > Len(nodes) THEN 0
    ELSE IF nodes[i].id = id THEN i
    ELSE findIndexFrom(nodes, id, i + 1)

findIndex(nodes, id) == findIndexFrom(nodes, id, 1)

hasNode(nodes, id) == findIndex(nodes, id) # 0

findNode(nodes, id) == nodes[findIndex(nodes, id)]

\* nodes.map(n => n.id)
mapIds(nodes) == [i \in 1..Len(nodes) |-> nodes[i].id]

\* ---------------------------------------------------- lib/assistant-utils
\* createDefaultConfig(): rootId is a fresh uuid; config.id is a second uuid drawn
\* with it, never compared with a node id, and named here by the root's number
createDefaultConfig(rootId, t) ==
    [ id         |-> rootId,
      praxisName |-> "Neue Praxis",
      nodes      |-> << [ id         |-> rootId,
                          parentId   |-> null,
                          type       |-> "greeting",
                          title      |-> "Begruessung",
                          ansageText |-> "Herzlich Willkommen bei der Praxis. Gerne nehmen wir Ihr Anliegen jetzt ueber unsere Telefonassistenz auf.",
                          format     |-> "synthetic",
                          hasOptions |-> FALSE,
                          inputMode  |-> undefined,
                          options    |-> << >>,
                          order      |-> 0 ] >>,
      createdAt  |-> t,
      updatedAt  |-> t ]

\* createNewNode numbering the new sibling from 1 instead of 0
createNewNode_offByOne(newId, parentId, order) ==
    [ id         |-> newId,
      parentId   |-> parentId,
      type       |-> "question",
      title      |-> "Neuer Schritt",
      ansageText |-> "",
      format     |-> "synthetic",
      hasOptions |-> FALSE,
      inputMode  |-> undefined,
      options    |-> << >>,
      order      |-> order + 1 ]

createNewNode(newId, parentId, order) ==
    [ id         |-> newId,
      parentId   |-> parentId,
      type       |-> "question",
      title      |-> "Neuer Schritt",
      ansageText |-> "",
      format     |-> "synthetic",
      hasOptions |-> FALSE,
      inputMode  |-> undefined,
      options    |-> << >>,
      order      |-> order ]

\* the guard of insertNodeBefore without the root check: only `!target`
insertThrows_noRootGuard(nodes, targetNodeId) ==
    ~hasNode(nodes, targetNodeId)

\* the guard of insertNodeBefore: `!target || !target.parentId`
insertThrows(nodes, targetNodeId) ==
    IF ~hasNode(nodes, targetNodeId) THEN TRUE
    ELSE findNode(nodes, targetNodeId).parentId \in {null, EmptyId}

\* the inserted node not taking over the target's parent: parentId left null
insertedNode_noParent(nodes, targetNodeId, newId) ==
    LET target == findNode(nodes, targetNodeId) IN
    [ id         |-> newId,
      parentId   |-> null,
      type       |-> "question",
      title      |-> "Neuer Schritt",
      ansageText |-> "",
      format     |-> "synthetic",
      hasOptions |-> TRUE,
      inputMode  |-> "keypress",
      options    |-> << [ key          |-> "1",
                          label        |-> target.title,
                          targetNodeId |-> target.id,
                          aiKeywords   |-> << >> ] >>,
      order      |-> target.order ]

\* the inserted node hung below the target instead of below the target's parent
insertedNode_belowTarget(nodes, targetNodeId, newId) ==
    LET target == findNode(nodes, targetNodeId) IN
    [ id         |-> newId,
      parentId   |-> target.id,
      type       |-> "question",
      title      |-> "Neuer Schritt",
      ansageText |-> "",
      format     |-> "synthetic",
      hasOptions |-> TRUE,
      inputMode  |-> "keypress",
      options    |-> << [ key          |-> "1",
                          label        |-> target.title,
                          targetNodeId |-> target.id,
                          aiKeywords   |-> << >> ] >>,
      order      |-> target.order ]

\* the node built by insertNodeBefore
insertedNode(nodes, targetNodeId, newId) ==
    LET target == findNode(nodes, targetNodeId) IN
    [ id         |-> newId,
      parentId   |-> target.parentId,
      type       |-> "question",
      title      |-> "Neuer Schritt",
      ansageText |-> "",
      format     |-> "synthetic",
      hasOptions |-> TRUE,
      inputMode  |-> "keypress",
      options    |-> << [ key          |-> "1",
                          label        |-> target.title,
                          targetNodeId |-> target.id,
                          aiKeywords   |-> << >> ] >>,
      order      |-> target.order ]

\* insertNodeBefore without its second map(): the parent's options keep
\* pointing at the target
insertNodeBefore_noRewrite(nodes, targetNodeId, newId) ==
    LET target   == findNode(nodes, targetNodeId)
        newNode  == insertedNode(nodes, targetNodeId, newId)
        newNodes == [i \in 1..Len(nodes) |->
                        IF nodes[i].id = target.id
                        THEN [nodes[i] EXCEPT !.parentId = newNode.id]
                        ELSE nodes[i]]
    IN  Append(newNodes, newNode)

\* the two map() passes of insertNodeBefore and the final append
insertNodeBefore(nodes, targetNodeId, newId) ==
    LET target   == findNode(nodes, targetNodeId)
        newNode  == insertedNode(nodes, targetNodeId, newId)
        newNodes == [i \in 1..Len(nodes) |->
                        IF nodes[i].id = target.id
                        THEN [nodes[i] EXCEPT !.parentId = newNode.id]
                        ELSE nodes[i]]
        updatedNodes ==
            [i \in 1..Len(newNodes) |->
                IF newNodes[i].id = target.parentId
                THEN [newNodes[i] EXCEPT !.options =
                        [k \in 1..Len(newNodes[i].options) |->
                            IF newNodes[i].options[k].targetNodeId = targetNodeId
                            THEN [newNodes[i].options[k] EXCEPT !.targetNodeId = newNode.id]
                            ELSE newNodes[i].options[k]]]
                ELSE newNodes[i]]
    IN  Append(updatedNodes, newNode)

\* insertion that puts n before the elements of equal `order`: a sort that is not stable
RECURSIVE insertSorted_beforeEqual(_, _)
insertSorted_beforeEqual(sorted, n) ==
    IF sorted = << >> THEN <<n>>
    ELSE IF Head(sorted).order - n.order >= 0
         THEN <<n>> \o sorted
         ELSE <<Head(sorted)>> \o insertSorted_beforeEqual(Tail(sorted), n)

\* stable insertion of n into a list sorted by `order` (Array.prototype.sort is stable)
RECURSIVE insertSorted(_, _)
insertSorted(sorted, n) ==
    IF sorted = << >> THEN <<n>>
    ELSE IF Head(sorted).order - n.order > 0
         THEN <<n>> \o sorted
         ELSE <<Head(sorted)>> \o insertSorted(Tail(sorted), n)

RECURSIVE sortByOrder(_)
sortByOrder(s) ==
    IF s = << >> THEN << >>
    ELSE insertSorted(sortByOrder(SubSeq(s, 1, Len(s) - 1)), s[Len(s)])

getChildNodes(nodes, parentId) ==
    sortByOrder(SelectSeq(nodes, LAMBDA n : n.parentId = parentId))

\* deleteNodeAndChildren without the recursion: the node and its direct children only
deleteNodeAndChildren_oneLevel(nodes, nodeId) ==
    SelectSeq(nodes, LAMBDA n : n.id # nodeId /\ n.parentId # nodeId)

RECURSIVE deleteNodeAndChildren(_, _)
RECURSIVE deleteEach(_, _)
\* the loop `for (const childId of childIds) result = deleteNodeAndChildren(result, childId)`
deleteEach(result, childIds) ==
    IF childIds = << >> THEN result
    ELSE deleteEach(deleteNodeAndChildren(result, Head(childIds)), Tail(childIds))

deleteNodeAndChildren(nodes, nodeId) ==
    LET childIds == mapIds(SelectSeq(nodes, LAMBDA n : n.parentId = nodeId))
        result   == SelectSeq(nodes, LAMBDA n : n.id # nodeId)
    IN  deleteEach(result, childIds)

\* the number of times deleteNodeAndChildren is entered by deleteNodeAndChildren(nodes, nodeId)
RECURSIVE deleteCalls(_, _)
RECURSIVE deleteCallsEach(_, _)
deleteCallsEach(result, childIds) ==
    IF childIds = << >> THEN 0
    ELSE deleteCalls(result, Head(childIds))
         + deleteCallsEach(deleteNodeAndChildren(result, Head(childIds)), Tail(childIds))

deleteCalls(nodes, nodeId) ==
    LET childIds == mapIds(SelectSeq(nodes, LAMBDA n : n.parentId = nodeId))
        result   == SelectSeq(nodes, LAMBDA n : n.id # nodeId)
    IN  1 + deleteCallsEach(result, childIds)

\* ------------------------------------------------------------------ JSON
\* A JSON text is written as the object it denotes: a record that has exactly
\* the keys the text has.  Two texts are no object: one that does not parse and
\* the text "null".  In a node record of the program a key the object does not
\* have reads `undefined`, and is kept as a field with that value.
unparsableText == [unparsable |-> TRUE]
nullText == [jsonNull |-> TRUE]

\* a value in the place of `nodes` that is truthy but no array, such as {}
notAnArray == << [notArray |-> TRUE] >>

isArray(v) == \A i \in 1..Len(v) : "notArray" \notin DOMAIN v[i]

\* the keys of AssistantNode that a node produced by the program may lack
OptionalKeys == {"inputMode"}

\* JSON.stringify of an object also leaves out every key whose value is ''
stringifyNode_dropEmpty(n) ==
    [f \in {g \in DOMAIN n : ~(g \in OptionalKeys \cup {"ansageText"}
                                  /\ n[g] \in {undefined, ""})} |-> n[f]]

\* JSON.stringify of an object leaves out every key whose value is undefined
stringifyNode(n) ==
    [f \in {g \in DOMAIN n : ~(g \in OptionalKeys /\ n[g] = undefined)} |-> n[f]]

\* JSON.stringify(config) / JSON.stringify(config, null, 2)
jsonStringify(value) ==
    IF "nodes" \in DOMAIN value /\ isArray(value.nodes)
    THEN [value EXCEPT !.nodes = [i \in 1..Len(value.nodes) |-> stringifyNode(value.nodes[i])]]
    ELSE value

\* JSON.parse throws a SyntaxError
parseThrows(text) == "unparsable" \in DOMAIN text

\* a parsed node: the keys of the text, every other key reading undefined
parsedNode(n) ==
    [f \in DOMAIN n \cup OptionalKeys |-> IF f \in DOMAIN n THEN n[f] ELSE undefined]

\* JSON.parse(text) for a text that parses
jsonParse(text) ==
    IF "nodes" \in DOMAIN text /\ isArray(text.nodes)
    THEN [text EXCEPT !.nodes = [i \in 1..Len(text.nodes) |-> parsedNode(text.nodes[i])]]
    ELSE text

\* -------------------------------------------------------------- layout
\* node.ansageText.length: the only text of the model that is not empty is the
\* greeting, 105 characters in the source (one u-umlaut where the model has "ue")
textLength(text) == IF text = "" THEN 0 ELSE 105

\* Math.ceil(a / b) for a >= 0, b > 0
ceilDiv(a, b) == (a + b - 1) \div b

\* ------------------------------------------- components/FlowchartView
NODE_WIDTH == 280
NODE_MIN_HEIGHT == 110
NODE_GAP_X == 28
NODE_GAP_Y == 55
CHARS_PER_LINE == 38

Max(a, b) == IF a >= b THEN a ELSE b

\* the value of h in estimateNodeHeight before Math.max; the nodes of the model
\* have no translations, tag, forwardNumber or isImportant, so only hasOptions
\* counts as an extra line
contentHeight(node) ==
    LET textPart  == IF node.ansageText # ""
                     THEN ceilDiv(textLength(node.ansageText), CHARS_PER_LINE) * 14 + 6
                     ELSE 0
        extraLines == IF node.hasOptions THEN 1 ELSE 0
        infoRow   == IF extraLines > 0 THEN 22 ELSE 0
    IN  80 + textPart + infoRow

\* estimateNodeHeight: `Math.max(NODE_MIN_HEIGHT, h)`
estimateNodeHeight(node) == Max(NODE_MIN_HEIGHT, contentHeight(node))

\* `currentX += childLayout.width` without the gap
advanceX_noGap(currentX, childWidth) == currentX + childWidth

\* `currentX += childLayout.width + NODE_GAP_X`
advanceX(currentX, childWidth) == currentX + childWidth + NODE_GAP_X

\* the parent kept at the left edge of its span
centeredX_left(startX, totalChildrenWidth) == startX

\* `startX + (totalChildrenWidth - NODE_WIDTH) / 2`; every width and gap is even,
\* so the quotient is exact
centeredX(startX, totalChildrenWidth) ==
    startX + (totalChildrenWidth - NODE_WIDTH) \div 2

\* the children put at the parent's own y plus the gap, the height left out
childYBelow_noHeight(yOffset, nodeHeight) == yOffset + NODE_GAP_Y

\* `const childY = yOffset + nodeHeight + NODE_GAP_Y`
childYBelow(yOffset, nodeHeight) == yOffset + nodeHeight + NODE_GAP_Y

\* the width of the row of children with the gap after the last child kept
rowWidth_trailingGap(currentX, startX) == currentX - startX

\* `const totalChildrenWidth = currentX - startX - NODE_GAP_X`
rowWidth(currentX, startX) == currentX - startX - NODE_GAP_X

\* x where the last of the layouts ends plus one gap: currentX after the loop
RECURSIVE endX(_, _)
endX(startX, childLayouts) ==
    IF childLayouts = << >> THEN startX
    ELSE advanceX(endX(startX, SubSeq(childLayouts, 1, Len(childLayouts) - 1)),
                  childLayouts[Len(childLayouts)].width)

\* calculateLayout(nodes, nodeId, depth, startX, yOffset); depth is only passed
\* on.  The record also keeps startX, which the program's record does not have.
RECURSIVE calculateLayout(_, _, _, _)
RECURSIVE childLayoutsFrom(_, _, _, _)
childLayoutsFrom(nodes, children, startX, childY) ==
    IF children = << >> THEN << >>
    ELSE LET before == childLayoutsFrom(nodes, SubSeq(children, 1, Len(children) - 1),
                                        startX, childY)
         IN  Append(before,
                    calculateLayout(nodes, children[Len(children)].id,
                                    endX(startX, before), childY))

calculateLayout(nodes, nodeId, startX, yOffset) ==
    IF ~hasNode(nodes, nodeId)
    THEN [nodeId |-> nodeId, x |-> startX, y |-> yOffset, width |-> NODE_WIDTH,
          height |-> NODE_MIN_HEIGHT, children |-> << >>, startX |-> startX]
    ELSE LET nodeHeight == estimateNodeHeight(findNode(nodes, nodeId))
             children   == getChildNodes(nodes, nodeId)
         IN  IF children = << >>
             THEN [nodeId |-> nodeId, x |-> startX, y |-> yOffset, width |-> NODE_WIDTH,
                   height |-> nodeHeight, children |-> << >>, startX |-> startX]
             ELSE LET childY       == childYBelow(yOffset, nodeHeight)
                      childLayouts == childLayoutsFrom(nodes, children, startX, childY)
                      totalChildrenWidth == rowWidth(endX(startX, childLayouts), startX)
                  IN  [nodeId |-> nodeId,
                       x |-> Max(startX, centeredX(startX, totalChildrenWidth)),
                       y |-> yOffset,
                       width |-> Max(NODE_WIDTH, totalChildrenWidth),
                       height |-> nodeHeight,
                       children |-> childLayouts,
                       startX |-> startX]

\* ------------------------------------------------------ lib/export-utils
PDF_NODE_WIDTH == 340
PDF_CHARS_PER_LINE == 48
PDF_NODE_GAP_X == 32
PDF_NODE_GAP_Y == 55
PDF_NODE_MIN_HEIGHT == 110

\* the PDF content height with one block for the options, however many there are
pdfContentHeight_flatOptions(node) ==
    LET textPart == IF node.ansageText # ""
                    THEN ceilDiv(textLength(node.ansageText), PDF_CHARS_PER_LINE) * 14 + 6
                    ELSE 0
        optionRows == IF node.hasOptions /\ Len(node.options) > 0 THEN 18 + 16 ELSE 0
    IN  80 + textPart + optionRows

\* the value of h in estimatePdfNodeHeight before Math.max: hasOptions is no
\* extra line; the options add their own rows
pdfContentHeight(node) ==
    LET textPart == IF node.ansageText # ""
                    THEN ceilDiv(textLength(node.ansageText), PDF_CHARS_PER_LINE) * 14 + 6
                    ELSE 0
        optionRows == IF node.hasOptions /\ Len(node.options) > 0
                      THEN 18 + Len(node.options) * 16 ELSE 0
    IN  80 + textPart + optionRows

\* estimatePdfNodeHeight: `Math.max(PDF_NODE_MIN_HEIGHT, h)`
estimatePdfNodeHeight(node) == Max(PDF_NODE_MIN_HEIGHT, pdfContentHeight(node))

\* the children in collection order instead of sorted by `order`
pdfChildNodes_unsorted(nodes, nodeId) ==
    SelectSeq(nodes, LAMBDA n : n.parentId = nodeId)

\* `const children = getChildNodes(nodes, nodeId)` in calcPdfLayout
pdfChildNodes(nodes, nodeId) ==
    getChildNodes(nodes, nodeId)

RECURSIVE pdfEndX(_, _)
pdfEndX(startX, childLayouts) ==
    IF childLayouts = << >> THEN startX
    ELSE pdfEndX(startX, SubSeq(childLayouts, 1, Len(childLayouts) - 1))
         + childLayouts[Len(childLayouts)].width + PDF_NODE_GAP_X

\* calcPdfLayout(nodes, nodeId, startX, yOffset), with startX kept as above
RECURSIVE calcPdfLayout(_, _, _, _)
RECURSIVE pdfChildLayoutsFrom(_, _, _, _)
pdfChildLayoutsFrom(nodes, children, startX, childY) ==
    IF children = << >> THEN << >>
    ELSE LET before == pdfChildLayoutsFrom(nodes, SubSeq(children, 1, Len(children) - 1),
                                           startX, childY)
         IN  Append(before,
                    calcPdfLayout(nodes, children[Len(children)].id,
                                  pdfEndX(startX, before), childY))

calcPdfLayout(nodes, nodeId, startX, yOffset) ==
    IF ~hasNode(nodes, nodeId)
    THEN [nodeId |-> nodeId, x |-> startX, y |-> yOffset, width |-> PDF_NODE_WIDTH,
          height |-> PDF_NODE_MIN_HEIGHT, children |-> << >>, startX |-> startX]
    ELSE LET nodeHeight == estimatePdfNodeHeight(findNode(nodes, nodeId))
             children   == pdfChildNodes(nodes, nodeId)
         IN  IF children = << >>
             THEN [nodeId |-> nodeId, x |-> startX, y |-> yOffset, width |-> PDF_NODE_WIDTH,
                   height |-> nodeHeight, children |-> << >>, startX |-> startX]
             ELSE LET childY       == yOffset + nodeHeight + PDF_NODE_GAP_Y
                      childLayouts == pdfChildLayoutsFrom(nodes, children, startX, childY)
                      totalChildrenWidth ==
                          pdfEndX(startX, childLayouts) - startX - PDF_NODE_GAP_X
                  IN  [nodeId |-> nodeId,
                       x |-> Max(startX,
                                 startX + (totalChildrenWidth - PDF_NODE_WIDTH) \div 2),
                       y |-> yOffset,
                       width |-> Max(PDF_NODE_WIDTH, totalChildrenWidth),
                       height |-> nodeHeight,
                       children |-> childLayouts,
                       startX |-> startX]

\* calculateBounds looking at the box of the given layout only
calculateBounds_rootOnly(l) ==
    [maxX |-> l.x + NODE_WIDTH, maxY |-> l.y + l.height + 20]

\* FlowchartContent.calculateBounds: the box of l, 20 added below it, and the
\* bounds of the children, folded with Math.max
RECURSIVE calculateBounds(_)
RECURSIVE boundsOver(_, _)
boundsOver(bounds, children) ==
    IF children = << >> THEN bounds
    ELSE LET childBounds == calculateBounds(children[1])
         IN  boundsOver([maxX |-> Max(bounds.maxX, childBounds.maxX),
                         maxY |-> Max(bounds.maxY, childBounds.maxY)],
                        SubSeq(children, 2, Len(children)))

calculateBounds(l) ==
    boundsOver([maxX |-> l.x + NODE_WIDTH, maxY |-> l.y + l.height + 20], l.children)

\* export-utils.getBounds: the same fold without the 20
RECURSIVE getBounds(_)
RECURSIVE pdfBoundsOver(_, _)
pdfBoundsOver(bounds, children) ==
    IF children = << >> THEN bounds
    ELSE LET cb == getBounds(children[1])
         IN  pdfBoundsOver([maxX |-> Max(bounds.maxX, cb.maxX),
                            maxY |-> Max(bounds.maxY, cb.maxY)],
                           SubSeq(children, 2, Len(children)))

getBounds(layout) ==
    pdfBoundsOver([maxX |-> layout.x + PDF_NODE_WIDTH, maxY |-> layout.y + layout.height],
                  layout.children)

\* the positions of the parentless nodes
rootIndices(nodes) == {i \in 1..Len(nodes) : nodes[i].parentId = null}

\* `nodes.find(n => n.parentId === null)`, the node both renderers start from
rootNodeId(nodes) == nodes[CHOOSE i \in rootIndices(nodes) :
                               \A k \in rootIndices(nodes) : i <= k].id

\* FlowchartView: calculateLayout(nodes, rootNode.id, 0, 50, 30)
canvasLayout(nodes) == calculateLayout(nodes, rootNodeId(nodes), 50, 30)

\* export-utils: calcPdfLayout(config.nodes, root.id, 50, 50)
pdfLayout(nodes) == calcPdfLayout(nodes, rootNodeId(nodes), 50, 50)

\* ------------------------------------------------- hooks/useAssistantConfig
\* saveConfig: stamp updatedAt, write localStorage, setConfig
stamped(newConfig) == [newConfig EXCEPT !.updatedAt = now]

saveConfig(newConfig) ==
    /\ storage' = << jsonStringify(stamped(newConfig)) >>
    /\ config'  = stamped(newConfig)

\* `newConfig.nodes[0]?.id || null`
firstNodeId(nodes) ==
    IF Len(nodes) = 0 \/ nodes[1].id = EmptyId THEN null ELSE nodes[1].id

\* the ids of the nodes of the current snapshot
nodeIds(nodes) == {nodes[i].id : i \in 1..Len(nodes)}

\* the arguments a caller may pass: the id of any present node or an id that
\* names no node; addChildNode may also be handed the empty string
ArgIds == nodeIds(config.nodes) \cup {NoSuchId}

Init ==
    /\ config = createDefaultConfig(1, 0)
    /\ storage = << >>
    /\ selectedNodeId = 1
    /\ uuidCount = 1
    /\ now = 0
    /\ lastCall = [op |-> "init", arg |-> null, ret |-> null, thrown |-> ""]

\* time passes between calls
Tick ==
    /\ now < MaxTime
    /\ now' = now + 1
    /\ UNCHANGED <<config, storage, selectedNodeId, uuidCount, lastCall>>

addChildNode(parentId) ==
    /\ LET siblings == SelectSeq(config.nodes, LAMBDA n : n.parentId = parentId)
           newNode  == createNewNode(uuidCount + 1, parentId, Len(siblings))
           newNodes == Append(config.nodes, newNode)
       IN  /\ saveConfig([config EXCEPT !.nodes = newNodes])
           /\ selectedNodeId' = newNode.id
           /\ lastCall' = [op |-> "addChildNode", arg |-> parentId,
                           ret |-> newNode.id, thrown |-> ""]
    /\ uuidCount' = uuidCount + 1
    /\ UNCHANGED now

insertNodeBeforeId(targetNodeId) ==
    \/ /\ insertThrows(config.nodes, targetNodeId)
       /\ lastCall' = [op |-> "insertNodeBeforeId", arg |-> targetNodeId,
                       ret |-> null, thrown |-> "Cannot insert before root"]
       /\ UNCHANGED <<config, storage, selectedNodeId, uuidCount, now>>
    \/ /\ ~insertThrows(config.nodes, targetNodeId)
       /\ saveConfig([config EXCEPT !.nodes =
                        insertNodeBefore(config.nodes, targetNodeId, uuidCount + 1)])
       /\ selectedNodeId' = uuidCount + 1
       /\ lastCall' = [op |-> "insertNodeBeforeId", arg |-> targetNodeId,
                       ret |-> uuidCount + 1, thrown |-> ""]
       /\ uuidCount' = uuidCount + 1
       /\ UNCHANGED now

\* the early return of deleteNode without the root check: only `!node`
deleteRejected_noRootGuard(nodes, nodeId) ==
    ~hasNode(nodes, nodeId)

\* the early return of deleteNode: `!node || !node.parentId`
deleteRejected(nodes, nodeId) ==
    IF ~hasNode(nodes, nodeId) THEN TRUE
    ELSE findNode(nodes, nodeId).parentId \in {null, EmptyId}

\* deleteNode without the filter on the parent's options
deletedNodes_keepOptions(nodes, nodeId) ==
    deleteNodeAndChildren(nodes, nodeId)

\* deleteNodeAndChildren followed by the filter on the parent's options
deletedNodes(nodes, nodeId) ==
    LET node     == findNode(nodes, nodeId)
        newNodes == deleteNodeAndChildren(nodes, nodeId)
    IN  [i \in 1..Len(newNodes) |->
            IF i = findIndex(newNodes, node.parentId)
            THEN [newNodes[i] EXCEPT !.options =
                    SelectSeq(newNodes[i].options, LAMBDA o : o.targetNodeId # nodeId)]
            ELSE newNodes[i]]

deleteNode(nodeId) ==
    \/ /\ deleteRejected(config.nodes, nodeId)
       /\ lastCall' = [op |-> "deleteNode", arg |-> nodeId, ret |-> null, thrown |-> ""]
       /\ UNCHANGED <<config, storage, selectedNodeId, uuidCount, now>>
    \/ /\ ~deleteRejected(config.nodes, nodeId)
       /\ saveConfig([config EXCEPT !.nodes = deletedNodes(config.nodes, nodeId)])
       /\ selectedNodeId' = findNode(config.nodes, nodeId).parentId
       /\ lastCall' = [op |-> "deleteNode", arg |-> nodeId, ret |-> null, thrown |-> ""]
       /\ UNCHANGED <<uuidCount, now>>

resetConfig ==
    /\ LET newConfig == createDefaultConfig(uuidCount + 1, now)
       IN  /\ saveConfig(newConfig)
           /\ selectedNodeId' = firstNodeId(newConfig.nodes)
    /\ lastCall' = [op |-> "resetConfig", arg |-> null,
                    ret |-> uuidCount + 1, thrown |-> ""]
    /\ uuidCount' = uuidCount + 1
    /\ UNCHANGED now

\* updateNode without the filter on the id: every node is replaced
updateNode_replaceAll(updatedNode) ==
    /\ saveConfig([config EXCEPT !.nodes =
                     [i \in 1..Len(config.nodes) |-> updatedNode]])
    /\ lastCall' = [op |-> "updateNode", arg |-> updatedNode.id, ret |-> null, thrown |-> ""]
    /\ UNCHANGED <<selectedNodeId, uuidCount, now>>

\* updateNode: nodes.map(n => n.id === updatedNode.id ? updatedNode : n), then save
updateNode(updatedNode) ==
    /\ saveConfig([config EXCEPT !.nodes =
                     [i \in 1..Len(config.nodes) |->
                         IF config.nodes[i].id = updatedNode.id
                         THEN updatedNode ELSE config.nodes[i]]])
    /\ lastCall' = [op |-> "updateNode", arg |-> updatedNode.id, ret |-> null, thrown |-> ""]
    /\ UNCHANGED <<selectedNodeId, uuidCount, now>>

\* ------------------------------------------------- components/NodeEditor
\* the editor is open on `node`, a node of the current snapshot; every edit is
\* update(partial) = onUpdate({ ...node, ...partial })

\* addOptionEntry: a new option with the next key, no label and no target
addOptionEntry(node) ==
    updateNode([node EXCEPT
        !.options = Append(node.options,
                           [ key          |-> ToString(Len(node.options) + 1),
                             label        |-> "",
                             targetNodeId |-> EmptyId,
                             aiKeywords   |-> << >> ]),
        !.hasOptions = TRUE])

\* a target select that offers every node of the collection
targetChoices_anyNode(nodes, node) ==
    {EmptyId} \cup {nodes[i].id : i \in 1..Len(nodes)}

\* the target select of an option: '_none' (stored as '') or one of the children
targetChoices(nodes, node) ==
    {EmptyId} \cup {nodes[i].id : i \in {j \in 1..Len(nodes) : nodes[j].parentId = node.id}}

\* updateOption(index, { targetNodeId })
updateOptionTarget(node, index, targetNodeId) ==
    updateNode([node EXCEPT !.options[index].targetNodeId = targetNodeId])

\* ----------------------------------------------- import, export, loading
\* exportConfigJSON: JSON.stringify(config, null, 2)
exportConfigJSON == jsonStringify(config)

\* importConfig throws inside its try block: JSON.parse fails, `imported.nodes`
\* is read on null, or `!imported.nodes || !imported.id`
importRejected(jsonString) ==
    IF parseThrows(jsonString) \/ jsonString = nullText THEN TRUE
    ELSE IF "nodes" \notin DOMAIN jsonString \/ "id" \notin DOMAIN jsonString THEN TRUE
    ELSE jsonString.id \in {null, EmptyId}

\* `imported.nodes[0]?.id || null`
firstImportedId(nodes) == IF isArray(nodes) THEN firstNodeId(nodes) ELSE null

importConfig(jsonString) ==
    \/ /\ importRejected(jsonString)
       /\ lastCall' = [op |-> "importConfig", arg |-> jsonString, ret |-> FALSE, thrown |-> ""]
       /\ UNCHANGED <<config, storage, selectedNodeId, uuidCount, now>>
    \/ /\ ~importRejected(jsonString)
       /\ saveConfig(jsonParse(jsonString))
       /\ selectedNodeId' = firstImportedId(jsonParse(jsonString).nodes)
       /\ lastCall' = [op |-> "importConfig", arg |-> jsonString, ret |-> TRUE, thrown |-> ""]
       /\ UNCHANGED <<uuidCount, now>>

\* the stored text is there and parses
storedParses(saved) == IF saved = << >> THEN FALSE ELSE ~parseThrows(saved[1])

\* loadConfig without the try/catch: the text is used whether or not it parses
loadConfig_noCatch(saved, rootId, t) ==
    IF saved # << >> THEN jsonParse(saved[1]) ELSE createDefaultConfig(rootId, t)

\* loadConfig: the parsed stored text, or createDefaultConfig() when nothing is
\* stored or JSON.parse throws
loadConfig(saved, rootId, t) ==
    IF storedParses(saved) THEN jsonParse(saved[1]) ELSE createDefaultConfig(rootId, t)

\* the components can read the node collection of the current snapshot
renders == "nodes" \in DOMAIN config /\ isArray(config.nodes)

\* the page is loaded again: useState(loadConfig), then the first node is selected
mount ==
    /\ config' = loadConfig(storage, uuidCount + 1, now)
    /\ selectedNodeId' =
          IF "nodes" \in DOMAIN config' THEN firstImportedId(config'.nodes) ELSE null
    /\ uuidCount' = IF storedParses(storage) THEN uuidCount ELSE uuidCount + 1
    /\ lastCall' = [op |-> "loadConfig", arg |-> null, ret |-> null, thrown |-> ""]
    /\ UNCHANGED <<storage, now>>

\* localStorage is cleared, or the item is overwritten, outside the application
clearStorage ==
    /\ storage # << >>
    /\ storage' = << >>
    /\ lastCall' = [op |-> "clearStorage", arg |-> null, ret |-> null, thrown |-> ""]
    /\ UNCHANGED <<config, selectedNodeId, uuidCount, now>>

corruptStorage ==
    /\ storage # << unparsableText >>
    /\ storage' = << unparsableText >>
    /\ lastCall' = [op |-> "corruptStorage", arg |-> null, ret |-> null, thrown |-> ""]
    /\ UNCHANGED <<config, selectedNodeId, uuidCount, now>>

\* the id of a configuration written by another installation
ForeignId == -3

withoutKey(text, key) == [f \in (DOMAIN text) \ {key} |-> text[f]]

\* the texts handed to importConfig: the current export, the export of another
\* installation, the export with a key missing, with `nodes` no array or an
\* empty array, the text "null" and a text that does not parse
importTexts ==
    { exportConfigJSON,
      jsonStringify(createDefaultConfig(ForeignId, 0)),
      withoutKey(exportConfigJSON, "id"),
      withoutKey(exportConfigJSON, "nodes"),
      [exportConfigJSON EXCEPT !.nodes = notAnArray],
      [exportConfigJSON EXCEPT !.nodes = << >>],
      nullText,
      unparsableText }

\* uuidv4() can still hand out an id below the bound
canDraw(maxIds) == uuidCount < maxIds

Next ==
    \/ \E parentId \in ArgIds \cup {EmptyId} :
          canDraw(MaxIds) /\ addChildNode(parentId)
    \/ \E targetNodeId \in ArgIds :
          /\ canDraw(MaxIds) \/ insertThrows(config.nodes, targetNodeId)
          /\ insertNodeBeforeId(targetNodeId)
    \/ \E nodeId \in ArgIds : deleteNode(nodeId)
    \/ canDraw(MaxIds) /\ resetConfig

\* the structural operations, called in any order with any argument
Spec == Init /\ [][Next]_vars

\* addChildNode, insertNodeBeforeId and deleteNode called on present nodes only
NextTree ==
    \/ \E parentId \in nodeIds(config.nodes) :
          canDraw(MaxTreeIds) /\ addChildNode(parentId)
    \/ \E targetNodeId \in nodeIds(config.nodes) :
          /\ canDraw(MaxTreeIds) \/ insertThrows(config.nodes, targetNodeId)
          /\ insertNodeBeforeId(targetNodeId)
    \/ \E nodeId \in nodeIds(config.nodes) : deleteNode(nodeId)

SpecTree == Init /\ [][NextTree]_vars

\* pages/Index: the editor is open on the selected node, when there is one
editedNodes ==
    IF selectedNodeId # null /\ hasNode(config.nodes, selectedNodeId)
    THEN {findNode(config.nodes, selectedNodeId)} ELSE {}

\* the operations on present nodes together with the option edits of the editor
NextEdit ==
    \/ \E parentId \in nodeIds(config.nodes) :
          canDraw(MaxEditIds) /\ addChildNode(parentId)
    \/ \E targetNodeId \in nodeIds(config.nodes) :
          /\ canDraw(MaxEditIds) \/ insertThrows(config.nodes, targetNodeId)
          /\ insertNodeBeforeId(targetNodeId)
    \/ \E nodeId \in nodeIds(config.nodes) : deleteNode(nodeId)
    \/ \E node \in editedNodes :
          Len(node.options) < MaxOptions /\ addOptionEntry(node)
    \/ \E node \in editedNodes : \E index \in 1..Len(node.options) :
          \E targetNodeId \in targetChoices(config.nodes, node) :
             updateOptionTarget(node, index, targetNodeId)

SpecEdit == Init /\ [][NextEdit]_vars

\* building a tree, importing, and loading the page again over a store that
\* may have been cleared or overwritten
NextIO ==
    \/ /\ renders
       /\ \E parentId \in nodeIds(config.nodes) :
             canDraw(MaxIoIds) /\ addChildNode(parentId)
    \/ /\ renders
       /\ \E targetNodeId \in nodeIds(config.nodes) :
             /\ canDraw(MaxIoIds) \/ insertThrows(config.nodes, targetNodeId)
             /\ insertNodeBeforeId(targetNodeId)
    \/ /\ renders
       /\ \E nodeId \in nodeIds(config.nodes) : deleteNode(nodeId)
    \/ /\ renders
       /\ \E jsonString \in importTexts : importConfig(jsonString)
    \/ /\ canDraw(MaxIoIds) \/ storedParses(storage)
       /\ mount
    \/ clearStorage
    \/ corruptStorage
    \/ Tick

SpecIO == Init /\ [][NextIO]_vars

\* a configuration whose collection has the nodes 1..n with any parent pointers:
\* null, another node, the node itself, or an id no node has
corruptNodes(n, parentOf) ==
    [i \in 1..n |-> createNewNode(i, parentOf[i], 0)]

InitCorrupt ==
    /\ \E n \in 1..MaxCorruptNodes :
          \E parentOf \in [1..n -> (1..n) \cup {null, NoSuchId}] :
             /\ config = [createDefaultConfig(1, 0) EXCEPT !.nodes = corruptNodes(n, parentOf)]
             /\ uuidCount = n
    /\ storage = << >>
    /\ selectedNodeId = null
    /\ now = 0
    /\ lastCall = [op |-> "init", arg |-> null, ret |-> null, thrown |-> ""]

\* deleteNodeAndChildren applied to the collection; ret is the number of calls made
deleteSubtree(nodeId) ==
    /\ config' = [config EXCEPT !.nodes = deleteNodeAndChildren(config.nodes, nodeId)]
    /\ lastCall' = [op |-> "deleteNodeAndChildren", arg |-> nodeId,
                    ret |-> deleteCalls(config.nodes, nodeId), thrown |-> ""]
    /\ UNCHANGED <<storage, selectedNodeId, uuidCount, now>>

NextCorrupt == \E nodeId \in nodeIds(config.nodes) \cup {NoSuchId} : deleteSubtree(nodeId)

SpecCorrupt == InitCorrupt /\ [][NextCorrupt]_vars

\* the same calls with the wall clock advancing between them
NextClock == Next \/ Tick

SpecClock == Init /\ [][NextClock]_vars

\* ------------------------------------------------------------ properties
\* a step that is a call of `op` on the hook
Called(op) ==
    /\ lastCall'.op = op
    /\ <<config, storage, selectedNodeId, lastCall>>' # <<config, storage, selectedNodeId, lastCall>>

\* following parentId from node `id` one or more times (at most `fuel`) reaches `a`
RECURSIVE reachesUp(_, _, _, _)
reachesUp(nodes, id, a, fuel) ==
    IF fuel = 0 \/ ~hasNode(nodes, id) THEN FALSE
    ELSE IF findNode(nodes, id).parentId = a THEN TRUE
    ELSE reachesUp(nodes, findNode(nodes, id).parentId, a, fuel - 1)

uniqueIds(nodes) ==
    \A i, j \in 1..Len(nodes) : nodes[i].id = nodes[j].id => i = j

noDanglingParent(nodes) ==
    \A i \in 1..Len(nodes) :
        nodes[i].parentId # null =>
            /\ hasNode(nodes, nodes[i].parentId)
            /\ nodes[i].parentId # nodes[i].id

acyclic(nodes) ==
    \A i \in 1..Len(nodes) : ~reachesUp(nodes, nodes[i].id, nodes[i].id, Len(nodes))

\* the number of nodes on the path from node `id` up to a parentless or missing parent
RECURSIVE depthOf(_, _, _)
depthOf(nodes, id, fuel) ==
    IF fuel = 0 \/ ~hasNode(nodes, id) THEN 0
    ELSE 1 + depthOf(nodes, findNode(nodes, id).parentId, fuel - 1)

\* C1: after any sequence of addChildNode, insertNodeBeforeId, deleteNode and
\* resetConfig calls, with any id as argument, exactly one node of config.nodes
\* has parentId null.
C1_ExactlyOneRoot == Cardinality(rootIndices(config.nodes)) = 1

\* C1 witness: a subtree has just been deleted from a collection that also holds a
\* node created under an id that names no node
C1_Witness ==
    /\ lastCall.op = "deleteNode"
    /\ lastCall.arg # NoSuchId
    /\ ~hasNode(config.nodes, lastCall.arg)
    /\ Len(config.nodes) >= 3
    /\ \E i \in 1..Len(config.nodes) : config.nodes[i].parentId = NoSuchId

\* C2: after any sequence of addChildNode, insertNodeBeforeId and deleteNode calls,
\* with any id as argument, every node whose parentId is not null has the id of
\* another present node as its parentId.
C2_NoDanglingParent == noDanglingParent(config.nodes)

\* C3: the parent relation is acyclic: no node is reached from itself by following
\* parentId one or more times, and no id occurs twice in the collection.
C3_Acyclic == acyclic(config.nodes) /\ uniqueIds(config.nodes)

\* C3 witness: insertNodeBeforeId has just put a node between a target and its
\* parent, so that the target sits at depth 3 or more
C3_Witness ==
    /\ lastCall.op = "insertNodeBeforeId"
    /\ lastCall.ret # null
    /\ hasNode(config.nodes, lastCall.arg)
    /\ findNode(config.nodes, lastCall.arg).parentId = lastCall.ret
    /\ depthOf(config.nodes, lastCall.arg, Len(config.nodes)) >= 3

\* the error insertNodeBefore throws; it names the root case (InvalidOperation)
RootError == "Cannot insert before root"

\* the root by the code's own test `!node.parentId`
isRootNode(n) == n.parentId \in {null, EmptyId}

\* nodes.filter(n => n.parentId === parentId).length, before a call
childCount(nodes, parentId) == Len(SelectSeq(nodes, LAMBDA n : n.parentId = parentId))

\* C4: addChildNode(parentId) with a parentId that matches no node fails with
\* NotFound and creates nothing: config.nodes is the same after the call.
C4_AddChildMissingParent ==
    [][(Called("addChildNode") /\ ~hasNode(config.nodes, lastCall'.arg))
        => (lastCall'.thrown = "NotFound" /\ config'.nodes = config.nodes)]_vars

\* C5: for an existing node p with k children, addChildNode(p) yields a collection
\* in which p has k+1 children; the new node has order k, no options and type
\* 'question'; every node that existed before is unchanged.
C5_AddChild ==
    [][(Called("addChildNode") /\ hasNode(config.nodes, lastCall'.arg)) =>
        LET p == lastCall'.arg
            k == childCount(config.nodes, p)
        IN  /\ childCount(config'.nodes, p) = k + 1
            /\ Len(config'.nodes) = Len(config.nodes) + 1
            /\ \A i \in 1..Len(config.nodes) : config'.nodes[i] = config.nodes[i]
            /\ ~hasNode(config.nodes, lastCall'.ret)
            /\ hasNode(config'.nodes, lastCall'.ret)
            /\ findNode(config'.nodes, lastCall'.ret).parentId = p
            /\ findNode(config'.nodes, lastCall'.ret).order = k
            /\ findNode(config'.nodes, lastCall'.ret).options = << >>
            /\ findNode(config'.nodes, lastCall'.ret).type = "question"]_vars

\* C5 witness: addChildNode has just given an existing node its third child
C5_Witness ==
    /\ lastCall.op = "addChildNode"
    /\ lastCall.arg # lastCall.ret
    /\ hasNode(config.nodes, lastCall.arg)
    /\ childCount(config.nodes, lastCall.arg) = 3
    /\ findNode(config.nodes, lastCall.ret).order = 2

\* C6: the node created by addChildNode(p) is the last element of
\* getChildNodes(nodes, p): it sorts after every child p already had.
C6_AddChildIsLastSibling ==
    [][(Called("addChildNode") /\ hasNode(config.nodes, lastCall'.arg)) =>
        LET siblings == getChildNodes(config'.nodes, lastCall'.arg)
        IN  siblings[Len(siblings)].id = lastCall'.ret]_vars

\* C7: for a non-root node t with t.parentId = p, insertNodeBefore adds exactly one
\* node N with N.parentId = p and t.parentId = N.id; every option of p that pointed
\* at t points at N; N.options is one entry with key "1", label t.title and
\* targetNodeId t.id.
C7_InsertBefore ==
    [][(/\ Called("insertNodeBeforeId")
        /\ hasNode(config.nodes, lastCall'.arg)
        /\ ~isRootNode(findNode(config.nodes, lastCall'.arg))) =>
        LET t  == findNode(config.nodes, lastCall'.arg)
            p  == t.parentId
            N  == lastCall'.ret
        IN  /\ Len(config'.nodes) = Len(config.nodes) + 1
            /\ nodeIds(config'.nodes) = nodeIds(config.nodes) \cup {N}
            /\ N \notin nodeIds(config.nodes)
            /\ findNode(config'.nodes, N).parentId = p
            /\ findNode(config'.nodes, t.id).parentId = N
            /\ hasNode(config.nodes, p) =>
                 LET before == findNode(config.nodes, p).options
                     after  == findNode(config'.nodes, p).options
                 IN  /\ Len(after) = Len(before)
                     /\ \A k \in 1..Len(before) :
                            before[k].targetNodeId = t.id => after[k].targetNodeId = N
            /\ Len(findNode(config'.nodes, N).options) = 1
            /\ findNode(config'.nodes, N).options[1].key = "1"
            /\ findNode(config'.nodes, N).options[1].label = t.title
            /\ findNode(config'.nodes, N).options[1].targetNodeId = t.id]_vars

\* C7 witness: a node has just been inserted before a target whose parent had an
\* option pointing at the target; that option now points at the inserted node
C7_Witness ==
    /\ lastCall.op = "insertNodeBeforeId"
    /\ lastCall.ret # null
    /\ hasNode(config.nodes, findNode(config.nodes, lastCall.ret).parentId)
    /\ \E k \in 1..Len(findNode(config.nodes, findNode(config.nodes, lastCall.ret).parentId).options) :
          findNode(config.nodes, findNode(config.nodes, lastCall.ret).parentId).options[k].targetNodeId
              = lastCall.ret

\* a call of insertNodeBeforeId that committed nothing
insertCommittedNothing == UNCHANGED <<config, storage, selectedNodeId>>

\* C8 as stated: insertNodeBeforeId fails with NotFound when the target id is
\* missing and with InvalidOperation when the target is the root (two failures the
\* caller can tell apart), and a failed call commits nothing.
C8_AsStated ==
    [][Called("insertNodeBeforeId") =>
        /\ ~hasNode(config.nodes, lastCall'.arg) =>
              /\ lastCall'.thrown \notin {"", RootError}
              /\ insertCommittedNothing
        /\ (/\ hasNode(config.nodes, lastCall'.arg)
            /\ findNode(config.nodes, lastCall'.arg).parentId = null) =>
              /\ lastCall'.thrown = RootError
              /\ insertCommittedNothing]_vars

\* C8 amended: insertNodeBefore throws the same error, 'Cannot insert before root',
\* when the target id is missing and when the target is the root;
\* insertNodeBeforeId then returns null and commits nothing: config, the persisted
\* configuration and selectedNodeId are unchanged.
C8_InsertFailure ==
    [][(/\ Called("insertNodeBeforeId")
        /\ IF hasNode(config.nodes, lastCall'.arg)
           THEN findNode(config.nodes, lastCall'.arg).parentId = null
           ELSE TRUE) =>
        /\ lastCall'.thrown = RootError
        /\ lastCall'.ret = null
        /\ insertCommittedNothing]_vars

\* C8 witness: insertNodeBeforeId has just failed on the root of a saved tree
C8_Witness ==
    /\ lastCall.op = "insertNodeBeforeId"
    /\ lastCall.thrown = RootError
    /\ hasNode(config.nodes, lastCall.arg)
    /\ findNode(config.nodes, lastCall.arg).parentId = null
    /\ Len(config.nodes) >= 2
    /\ storage = <<jsonStringify(config)>>

\* node `id` is x or a descendant of x at any depth
inSubtree(nodes, id, x) == id = x \/ reachesUp(nodes, id, x, Len(nodes))

validTree(nodes) ==
    /\ Cardinality(rootIndices(nodes)) = 1
    /\ noDanglingParent(nodes)
    /\ acyclic(nodes)
    /\ uniqueIds(nodes)

\* C9: for any node x of a valid tree, deleteNodeAndChildren(nodes, x) is the
\* collection without x and without the descendants of x, the other nodes
\* unchanged and in their original relative order.
C9_DeleteSubtree ==
    validTree(config.nodes) =>
        \A x \in nodeIds(config.nodes) :
            deleteNodeAndChildren(config.nodes, x) =
                SelectSeq(config.nodes, LAMBDA n : ~inSubtree(config.nodes, n.id, x))

\* C9 witness: a valid tree in which a non-root node x has a grandchild, while a
\* node outside the subtree of x comes after x in the collection
C9_Witness ==
    /\ validTree(config.nodes)
    /\ \E i, j, g \in 1..Len(config.nodes) :
          /\ config.nodes[i].parentId # null
          /\ config.nodes[g].parentId # config.nodes[i].id
          /\ reachesUp(config.nodes, config.nodes[g].id, config.nodes[i].id, Len(config.nodes))
          /\ j > i
          /\ config.nodes[j].parentId # null
          /\ ~inSubtree(config.nodes, config.nodes[j].id, config.nodes[i].id)

C11_DeleteStripsParentOptions ==
    [][(/\ Called("deleteNode")
        /\ hasNode(config.nodes, lastCall'.arg)
        /\ ~isRootNode(findNode(config.nodes, lastCall'.arg))
        /\ hasNode(config.nodes, findNode(config.nodes, lastCall'.arg).parentId)) =>
        LET x == lastCall'.arg
            p == findNode(config.nodes, x).parentId
        IN  /\ hasNode(config'.nodes, p)
            /\ \A k \in 1..Len(findNode(config'.nodes, p).options) :
                   findNode(config'.nodes, p).options[k].targetNodeId # x
            /\ findNode(config'.nodes, p).options =
                   SelectSeq(findNode(config.nodes, p).options,
                             LAMBDA o : o.targetNodeId # x)]_vars

\* C11 witness: deleteNode has just removed a node whose parent keeps one option
\* (key "2", placed after the stripped one) that did not point at the deleted node
C11_Witness ==
    /\ lastCall.op = "deleteNode"
    /\ ~hasNode(config.nodes, lastCall.arg)
    /\ selectedNodeId # null
    /\ hasNode(config.nodes, selectedNodeId)
    /\ Len(findNode(config.nodes, selectedNodeId).options) = 1
    /\ findNode(config.nodes, selectedNodeId).options[1].key = "2"

\* ------------------------------------------- updateNode called on the hook
\* the hook hands updateNode to its callers, who may pass any node record: a
\* present node with a new title, under another parent (not one of its own
\* descendants), or a record whose id no node has
updateArgs(nodes) ==
    LET present == {nodes[i] : i \in 1..Len(nodes)}
    IN  {[n EXCEPT !.title = "Neu"] : n \in present}
        \cup {[n EXCEPT !.id = NoSuchId] : n \in present}
        \cup UNION {{[n EXCEPT !.parentId = q] :
                        q \in {r \in nodeIds(nodes) : ~inSubtree(nodes, r, n.id)}} :
                    n \in {m \in present : ~isRootNode(m)}}

NextUpdate ==
    \/ \E parentId \in nodeIds(config.nodes) :
          canDraw(MaxEditIds) /\ addChildNode(parentId)
    \/ \E targetNodeId \in nodeIds(config.nodes) :
          /\ canDraw(MaxEditIds) \/ insertThrows(config.nodes, targetNodeId)
          /\ insertNodeBeforeId(targetNodeId)
    \/ \E nodeId \in nodeIds(config.nodes) : deleteNode(nodeId)
    \/ \E updatedNode \in updateArgs(config.nodes) : updateNode(updatedNode)
    \/ Tick

SpecUpdate == Init /\ [][NextUpdate]_vars

\* ------------------------------------------- callbacks of one render
\* addChildNode, updateNode, ... are useCallback(..., [config, saveConfig]): a
\* callback works on the `config` of the render that created it.  An event
\* handler runs to completion before React renders again, so two callbacks it
\* invokes both work on the snapshot the handler was rendered with; setConfig
\* and localStorage.setItem take a value, and the second call's value replaces
\* the first's.

MaxRenderIds == 4

\* the configuration addChildNode hands to saveConfig, for the snapshot `rendered`
addChildNodeOn(rendered, parentId, newId) ==
    LET siblings == SelectSeq(rendered.nodes, LAMBDA n : n.parentId = parentId)
        newNode  == createNewNode(newId, parentId, Len(siblings))
    IN  [rendered EXCEPT !.nodes = Append(rendered.nodes, newNode)]

\* the configuration updateNode hands to saveConfig, for the snapshot `rendered`
updateNodeOn(rendered, updatedNode) ==
    [rendered EXCEPT !.nodes =
        [i \in 1..Len(rendered.nodes) |->
            IF rendered.nodes[i].id = updatedNode.id
            THEN updatedNode ELSE rendered.nodes[i]]]

\* a handler calls addChildNode(parentId) and then addChildNode(secondParentId)
addChildNodeTwice(parentId, secondParentId) ==
    /\ LET second == addChildNodeOn(config, secondParentId, uuidCount + 2)
       IN  /\ saveConfig(second)
           /\ selectedNodeId' = uuidCount + 2
           /\ lastCall' = [op |-> "addChildNode,addChildNode", arg |-> parentId,
                           ret |-> uuidCount + 2, thrown |-> ""]
    /\ uuidCount' = uuidCount + 2
    /\ UNCHANGED now

\* a handler calls newNode = addChildNode(parentId) and then
\* updateNode({ ...newNode, title })
addChildNodeThenUpdate(parentId) ==
    /\ LET siblings == SelectSeq(config.nodes, LAMBDA n : n.parentId = parentId)
           newNode  == createNewNode(uuidCount + 1, parentId, Len(siblings))
           second   == updateNodeOn(config, [newNode EXCEPT !.title = "Neu"])
       IN  /\ saveConfig(second)
           /\ selectedNodeId' = newNode.id
           /\ lastCall' = [op |-> "addChildNode,updateNode", arg |-> parentId,
                           ret |-> newNode.id, thrown |-> ""]
    /\ uuidCount' = uuidCount + 1
    /\ UNCHANGED now

\* single calls on present nodes, and handlers that make two calls
NextRender ==
    \/ \E parentId \in nodeIds(config.nodes) :
          canDraw(MaxRenderIds) /\ addChildNode(parentId)
    \/ \E targetNodeId \in nodeIds(config.nodes) :
          /\ canDraw(MaxRenderIds) \/ insertThrows(config.nodes, targetNodeId)
          /\ insertNodeBeforeId(targetNodeId)
    \/ \E nodeId \in nodeIds(config.nodes) : deleteNode(nodeId)
    \/ \E parentId, secondParentId \in nodeIds(config.nodes) :
          uuidCount + 1 < MaxRenderIds /\ addChildNodeTwice(parentId, secondParentId)
    \/ \E parentId \in nodeIds(config.nodes) :
          canDraw(MaxRenderIds) /\ addChildNodeThenUpdate(parentId)

SpecRender == Init /\ [][NextRender]_vars

\* C12: updateNode(node) with a node whose id matches no node of config.nodes
\* fails with NotFound and leaves the configuration (nodes and updatedAt, in
\* memory and in storage) unchanged.
C12_UpdateMissingRejected ==
    [][(Called("updateNode") /\ ~hasNode(config.nodes, lastCall'.arg)) =>
        /\ lastCall'.thrown = "NotFound"
        /\ config' = config
        /\ storage' = storage]_vars

\* the structural fields of every node, in collection order
treeShape(nodes) ==
    [i \in 1..Len(nodes) |-> <<nodes[i].id, nodes[i].parentId, nodes[i].order>>]

\* C13: updateNode never changes the tree shape: for every argument accepted by
\* updateNode, the parentId and order of every node and the set of node ids are
\* the same after the call as before.
C13_UpdateKeepsShape ==
    [][Called("updateNode") => treeShape(config'.nodes) = treeShape(config.nodes)]_vars

\* ------------------------------------------------ the snapshot left behind
\* deleteNode: deleteNodeAndChildren filters the array, so newNodes holds the very
\* node objects of cfg.nodes; `parent.options = parent.options.filter(...)` is then
\* an assignment to a field of a node of cfg.  This is cfg as it reads once
\* deleteNode(nodeId) has run on it.
snapshotAfterDeleteNode(cfg, nodeId) ==
    IF deleteRejected(cfg.nodes, nodeId) THEN cfg
    ELSE LET node     == findNode(cfg.nodes, nodeId)
             newNodes == deleteNodeAndChildren(cfg.nodes, nodeId)
         IN  IF ~hasNode(newNodes, node.parentId) THEN cfg
             ELSE [cfg EXCEPT !.nodes =
                     [i \in 1..Len(cfg.nodes) |->
                         IF cfg.nodes[i].id = node.parentId
                         THEN [cfg.nodes[i] EXCEPT !.options =
                                 SelectSeq(cfg.nodes[i].options,
                                           LAMBDA o : o.targetNodeId # nodeId)]
                         ELSE cfg.nodes[i]]]

\* the snapshot cfg as it reads after the call `call` was made on it: updateNode,
\* addChildNode and insertNodeBeforeId build new arrays and new records
\* (map, spread) and saveConfig stamps the new object only
priorSnapshotAfter(cfg, call) ==
    IF call.op = "deleteNode" THEN snapshotAfterDeleteNode(cfg, call.arg) ELSE cfg

\* C14: every mutation (updateNode, addChildNode, insertNodeBeforeId, deleteNode)
\* leaves the prior snapshot intact: after the call, the configuration object
\* that was current before the call and each of its node records, options lists
\* included, have the same field values as before the call.
C14_PriorSnapshotIntact ==
    [][(\/ Called("updateNode") \/ Called("addChildNode")
        \/ Called("insertNodeBeforeId") \/ Called("deleteNode")) =>
        priorSnapshotAfter(config, lastCall') = config]_vars

\* --------------------------------------------------- import, export, load
\* the payload does not parse, or has no identifier, or has no node collection
lacksConfigStructure(text) ==
    IF parseThrows(text) \/ text = nullText THEN TRUE
    ELSE IF "id" \notin DOMAIN text \/ "nodes" \notin DOMAIN text THEN TRUE
    ELSE ~isArray(text.nodes)

\* C15: importConfig rejects (returns false, with config, persisted storage and
\* selectedNodeId unchanged) every payload that is unparsable or lacks an
\* identifier or lacks a node collection; every accepted payload replaces the
\* whole working configuration in one step.
C15_ImportRejectsInvalid ==
    [][Called("importConfig") =>
        IF lacksConfigStructure(lastCall'.arg)
        THEN /\ lastCall'.ret = FALSE
             /\ UNCHANGED <<config, storage, selectedNodeId>>
        ELSE lastCall'.ret = TRUE =>
                /\ config' = [jsonParse(lastCall'.arg) EXCEPT !.updatedAt = now]
                /\ storage' = << jsonStringify(config') >>]_vars

C20_LoadFallsBackToDefault ==
    [][(Called("loadConfig") /\ ~storedParses(storage)) =>
        /\ lastCall'.thrown = ""
        /\ config' = createDefaultConfig(uuidCount', now)
        /\ Len(config'.nodes) = 1
        /\ config'.nodes[1].parentId = null
        /\ config'.nodes[1].options = << >>]_vars

\* C20 witness: the page was loaded over a store that held an unparsable
\* text while the tree had three nodes; the fresh configuration has one
C20_Witness ==
    /\ lastCall.op = "loadConfig"
    /\ storage = << unparsableText >>
    /\ uuidCount = MaxIoIds
    /\ Len(config.nodes) = 1
    /\ config.nodes[1].id = MaxIoIds

\* ------------------------------------------------------------------ layout
\* a layout and the layouts of all the subtrees below it
RECURSIVE allLayouts(_)
allLayouts(layout) ==
    {layout} \cup UNION {allLayouts(layout.children[i]) : i \in 1..Len(layout.children)}

\* the root has exactly three children and none of them has a child
threeLeafChildren(nodes) ==
    LET kids == getChildNodes(nodes, rootNodeId(nodes))
    IN  /\ Len(kids) = 3
        /\ \A i \in 1..3 : getChildNodes(nodes, kids[i].id) = << >>

\* the three children stand at start, start + (W+G), start + 2(W+G) in ascending
\* order of `order`, the parent at start + (3W+2G)/2 - W/2
rowOfThree(nodes, layout, W, G) ==
    /\ Len(layout.children) = 3
    /\ \A i \in 1..3 : layout.children[i].x = layout.startX + (i - 1) * (W + G)
    /\ \A i, k \in 1..3 :
          i < k => findNode(nodes, layout.children[i].nodeId).order
                      <= findNode(nodes, layout.children[k].nodeId).order
    /\ {layout.children[i].nodeId : i \in 1..3}
          = {n.id : n \in {nodes[i] : i \in {k \in 1..Len(nodes) :
                                              nodes[k].parentId = layout.nodeId}}}
    /\ 2 * (layout.x - layout.startX) = (3 * W + 2 * G) - W

\* C17: for a root with exactly three leaf children, calculateLayout (W =
\* NODE_WIDTH, G = NODE_GAP_X) and calcPdfLayout (with its own W and G) place
\* the children at x = start, start + (W+G), start + 2(W+G) in ascending order
\* of `order`, and the root at x = start + (3W+2G)/2 - W/2.
C17_ThreeLeafChildren ==
    threeLeafChildren(config.nodes) =>
        /\ canvasLayout(config.nodes).startX = 50
        /\ rowOfThree(config.nodes, canvasLayout(config.nodes), NODE_WIDTH, NODE_GAP_X)
        /\ pdfLayout(config.nodes).startX = 50
        /\ rowOfThree(config.nodes, pdfLayout(config.nodes), PDF_NODE_WIDTH, PDF_NODE_GAP_X)

\* C17 witness: a root with three leaf children whose orders are 0, 1, 2 and
\* which do not stand in that order in the collection
C17_Witness ==
    /\ threeLeafChildren(config.nodes)
    /\ LET kids == getChildNodes(config.nodes, rootNodeId(config.nodes))
       IN  /\ \A i \in 1..3 : kids[i].order = i - 1
           /\ kids # SelectSeq(config.nodes,
                               LAMBDA n : n.parentId = rootNodeId(config.nodes))

\* the spans of the children of every node are disjoint, consecutive ones G apart
siblingSpansApart(layout, G) ==
    \A l \in allLayouts(layout) :
        /\ \A i \in 1..(Len(l.children) - 1) :
              l.children[i + 1].startX - (l.children[i].startX + l.children[i].width) = G
        /\ \A i, k \in 1..Len(l.children) :
              i < k => l.children[i].startX + l.children[i].width < l.children[k].startX

\* every box [x, x + W] lies inside the span [startX, startX + width] of its subtree
boxesInsideSpans(layout, W) ==
    \A l \in allLayouts(layout) : l.startX <= l.x /\ l.x + W <= l.startX + l.width

\* the rectangles [x, x + W] x [y, y + height] of two distinct nodes do not meet
rectanglesDisjoint(layout, W) ==
    \A a, b \in allLayouts(layout) :
        a.nodeId # b.nodeId =>
            \/ a.x + W < b.x
            \/ b.x + W < a.x
            \/ a.y + a.height < b.y
            \/ b.y + b.height < a.y

\* every node of the collection has exactly one box
everyNodePlaced(nodes, layout) ==
    /\ {l.nodeId : l \in allLayouts(layout)} = nodeIds(nodes)
    /\ Cardinality(allLayouts(layout)) = Len(nodes)

\* C18: for every valid tree, calculateLayout assigns non-overlapping positions:
\* the horizontal spans of sibling subtrees are disjoint and adjacent ones are
\* exactly NODE_GAP_X apart, every node's box lies inside the span of its own
\* subtree, and the rectangles of any two distinct nodes do not intersect; the
\* same for calcPdfLayout with its constants.
C18_NoOverlap ==
    validTree(config.nodes) =>
        /\ everyNodePlaced(config.nodes, canvasLayout(config.nodes))
        /\ siblingSpansApart(canvasLayout(config.nodes), NODE_GAP_X)
        /\ boxesInsideSpans(canvasLayout(config.nodes), NODE_WIDTH)
        /\ rectanglesDisjoint(canvasLayout(config.nodes), NODE_WIDTH)
        /\ everyNodePlaced(config.nodes, pdfLayout(config.nodes))
        /\ siblingSpansApart(pdfLayout(config.nodes), PDF_NODE_GAP_X)
        /\ boxesInsideSpans(pdfLayout(config.nodes), PDF_NODE_WIDTH)
        /\ rectanglesDisjoint(pdfLayout(config.nodes), PDF_NODE_WIDTH)

\* C18 witness: a valid tree in which some node has two children, one of them
\* with a subtree wider than one box, so that the parent is centred to the
\* right of its start
C18_Witness ==
    /\ validTree(config.nodes)
    /\ \E l \in allLayouts(canvasLayout(config.nodes)) :
          /\ Len(l.children) >= 2
          /\ \E i \in 1..Len(l.children) : l.children[i].width > NODE_WIDTH
          /\ l.x > l.startX

\* a layout with its coordinates taken relative to the offsets it was started at
RECURSIVE relativeTo(_, _, _)
relativeTo(layout, startX, yOffset) ==
    [ nodeId   |-> layout.nodeId,
      x        |-> layout.x - startX,
      y        |-> layout.y - yOffset,
      width    |-> layout.width,
      height   |-> layout.height,
      children |-> [i \in 1..Len(layout.children) |->
                       relativeTo(layout.children[i], startX, yOffset)] ]

\* C19 as stated: for the same node collection, calculateLayout and
\* calcPdfLayout produce the same tree of node ids in the same child order with
\* the same x, y, width and height for every node, relative to their start offsets.
C19_AsStated ==
    relativeTo(canvasLayout(config.nodes), 50, 30) = relativeTo(pdfLayout(config.nodes), 50, 50)

\* the tree of node ids of a layout, children in their order, and with every
\* node the number of box columns its span holds: width = k * W + (k - 1) * G
RECURSIVE columnTree(_, _, _)
columnTree(layout, W, G) ==
    [ nodeId   |-> layout.nodeId,
      columns  |-> (layout.width + G) \div (W + G),
      exact    |-> (layout.width + G) % (W + G) = 0,
      children |-> [i \in 1..Len(layout.children) |->
                       columnTree(layout.children[i], W, G)] ]

\* C19, amended: for the same node collection, calculateLayout and calcPdfLayout
\* produce the same tree of node ids in the same child order, and every node
\* spans the same number of box columns in both; x, y, width and height are
\* computed by each renderer from its own constants (box 280 or 340 wide, gap 28
\* or 32, 38 or 48 characters per line) and its own height estimate.
C19_SameTreeOwnConstants ==
    /\ columnTree(canvasLayout(config.nodes), NODE_WIDTH, NODE_GAP_X)
          = columnTree(pdfLayout(config.nodes), PDF_NODE_WIDTH, PDF_NODE_GAP_X)
    /\ columnTree(canvasLayout(config.nodes), NODE_WIDTH, NODE_GAP_X).exact

\* C19 witness: some node below the root has two children that stand in the
\* collection in the reverse of their `order`
C19_Witness ==
    \E i \in 1..Len(config.nodes) :
        /\ config.nodes[i].parentId # null
        /\ Len(getChildNodes(config.nodes, config.nodes[i].id)) = 2
        /\ getChildNodes(config.nodes, config.nodes[i].id)
              # SelectSeq(config.nodes, LAMBDA n : n.parentId = config.nodes[i].id)

\* every child of every laid-out node stands at the node's y + its height + gap
childrenBelowParent(layout, gapY) ==
    \A l \in allLayouts(layout) :
        \A i \in 1..Len(l.children) : l.children[i].y = l.y + l.height + gapY

\* the height of every box is the estimate for its node
heightsEstimated(nodes, layout, estimate(_)) ==
    \A l \in allLayouts(layout) : l.height = estimate(findNode(nodes, l.nodeId))

\* C21: in the layout returned by calculateLayout the root's y equals the given
\* top offset and every child's y equals its parent's y + the parent's estimated
\* height + NODE_GAP_Y, so all children of one node share one y; the same holds
\* for calcPdfLayout with its gap.
C21_ChildYBelowParent ==
    validTree(config.nodes) =>
        /\ canvasLayout(config.nodes).y = 30
        /\ heightsEstimated(config.nodes, canvasLayout(config.nodes), estimateNodeHeight)
        /\ childrenBelowParent(canvasLayout(config.nodes), 55)
        /\ pdfLayout(config.nodes).y = 50
        /\ heightsEstimated(config.nodes, pdfLayout(config.nodes), estimatePdfNodeHeight)
        /\ childrenBelowParent(pdfLayout(config.nodes), 55)

\* C21 witness: two nodes of equal depth under different parents stand at
\* different y in the PDF layout, because their parents differ in height
C21_Witness ==
    /\ validTree(config.nodes)
    /\ \E a, b \in allLayouts(pdfLayout(config.nodes)) :
          /\ depthOf(config.nodes, a.nodeId, Len(config.nodes))
                = depthOf(config.nodes, b.nodeId, Len(config.nodes))
          /\ findNode(config.nodes, a.nodeId).parentId
                # findNode(config.nodes, b.nodeId).parentId
          /\ a.y # b.y

\* the sum of the widths of a sequence of layouts
RECURSIVE sumOfWidths(_)
sumOfWidths(layouts) ==
    IF layouts = << >> THEN 0
    ELSE layouts[1].width + sumOfWidths(SubSeq(layouts, 2, Len(layouts)))

\* a leaf is W wide, an interior node max(W, sum of its children's widths +
\* G * (number of children - 1)), and no subtree is narrower than W
widthsAsSpecified(layout, W, G) ==
    \A l \in allLayouts(layout) :
        /\ l.children = << >> => l.width = W
        /\ l.children # << >> =>
              l.width = Max(W, sumOfWidths(l.children) + G * (Len(l.children) - 1))
        /\ l.width >= W

\* C22: in the layout returned by calculateLayout a leaf's width equals
\* NODE_WIDTH and an interior node's width equals max(NODE_WIDTH, sum of its
\* children's widths + NODE_GAP_X * (number of children - 1)); every subtree
\* width is at least NODE_WIDTH.  The same for calcPdfLayout with its constants.
C22_SubtreeWidth ==
    validTree(config.nodes) =>
        /\ widthsAsSpecified(canvasLayout(config.nodes), 280, 28)
        /\ widthsAsSpecified(pdfLayout(config.nodes), 340, 32)
        /\ \A l \in allLayouts(canvasLayout(config.nodes)) :
              (l.children = << >>) = (getChildNodes(config.nodes, l.nodeId) = << >>)

\* C22 witness: a node with two children, one a leaf and one with two leaf
\* children of its own, is three boxes and two gaps wide
C22_Witness ==
    /\ validTree(config.nodes)
    /\ \E l \in allLayouts(canvasLayout(config.nodes)) :
          /\ Len(l.children) = 2
          /\ \E i \in 1..2 : Len(l.children[i].children) = 2
          /\ l.width = 3 * 280 + 2 * 28

\* the largest element of a non-empty set of numbers
maxOf(S) == CHOOSE m \in S : \A k \in S : k <= m

\* the maxima over all boxes of a layout of x + W and of y + height
rightmostEdge(layout, W) == maxOf({l.x + W : l \in allLayouts(layout)})
lowestEdge(layout) == maxOf({l.y + l.height : l \in allLayouts(layout)})

\* every box lies inside [0, maxX] x [0, maxY]
boxesInsideBounds(layout, W, bounds) ==
    \A l \in allLayouts(layout) :
        /\ 0 <= l.x /\ l.x + W <= bounds.maxX
        /\ 0 <= l.y /\ l.y + l.height <= bounds.maxY

\* C23 as stated: the drawing bounds computed for a layout (calculateBounds,
\* getBounds) are exactly the maxima over all laid-out nodes: maxX = max of
\* x + node width, maxY = max of y + height.
C23_AsStated ==
    validTree(config.nodes) =>
        /\ calculateBounds(canvasLayout(config.nodes)).maxX
              = rightmostEdge(canvasLayout(config.nodes), NODE_WIDTH)
        /\ calculateBounds(canvasLayout(config.nodes)).maxY
              = lowestEdge(canvasLayout(config.nodes))
        /\ getBounds(pdfLayout(config.nodes)).maxX
              = rightmostEdge(pdfLayout(config.nodes), PDF_NODE_WIDTH)
        /\ getBounds(pdfLayout(config.nodes)).maxY = lowestEdge(pdfLayout(config.nodes))

\* C23, amended: getBounds gives exactly the maxima over all laid-out nodes of
\* x + node width and y + height; calculateBounds gives the same maximum for
\* maxX, and for maxY the maximum of y + height plus a margin of 20; in both,
\* every node rectangle lies inside [0, maxX] x [0, maxY].
C23_BoundsAreMaxima ==
    validTree(config.nodes) =>
        /\ calculateBounds(canvasLayout(config.nodes)).maxX
              = rightmostEdge(canvasLayout(config.nodes), NODE_WIDTH)
        /\ calculateBounds(canvasLayout(config.nodes)).maxY
              = lowestEdge(canvasLayout(config.nodes)) + 20
        /\ boxesInsideBounds(canvasLayout(config.nodes), NODE_WIDTH,
                             calculateBounds(canvasLayout(config.nodes)))
        /\ getBounds(pdfLayout(config.nodes)).maxX
              = rightmostEdge(pdfLayout(config.nodes), PDF_NODE_WIDTH)
        /\ getBounds(pdfLayout(config.nodes)).maxY = lowestEdge(pdfLayout(config.nodes))
        /\ boxesInsideBounds(pdfLayout(config.nodes), PDF_NODE_WIDTH,
                             getBounds(pdfLayout(config.nodes)))

\* C23 witness: the lowest box is not the rightmost one, and neither is the root
C23_Witness ==
    /\ validTree(config.nodes)
    /\ \E a, b \in allLayouts(canvasLayout(config.nodes)) :
          /\ a.y + a.height = lowestEdge(canvasLayout(config.nodes))
          /\ b.x + NODE_WIDTH = rightmostEdge(canvasLayout(config.nodes), NODE_WIDTH)
          /\ a.x < b.x
          /\ b.y < a.y
          /\ canvasLayout(config.nodes).y < b.y

\* ------------------------------------------------------- height estimates
\* in this step the node at position i, which had hasOptions set and at least
\* one option, received one more option
gainedAnOption(i) ==
    /\ i <= Len(config'.nodes)
    /\ config'.nodes[i].id = config.nodes[i].id
    /\ config.nodes[i].hasOptions
    /\ Len(config.nodes[i].options) >= 1
    /\ config'.nodes[i].hasOptions
    /\ Len(config'.nodes[i].options) = Len(config.nodes[i].options) + 1

\* C24 as stated: adding one more option to a node with hasOptions and at
\* least one option increases the height before flooring by one fixed
\* per-option amount, in estimateNodeHeight as well as in
\* estimatePdfNodeHeight; the result is never below the minimum node height.
C24_AsStated ==
    [][\A i \in 1..Len(config.nodes) :
          (Called("updateNode") /\ gainedAnOption(i)) =>
             /\ contentHeight(config'.nodes[i]) - contentHeight(config.nodes[i]) > 0
             /\ pdfContentHeight(config'.nodes[i]) - pdfContentHeight(config.nodes[i]) = 16
             /\ estimateNodeHeight(config'.nodes[i]) >= NODE_MIN_HEIGHT
             /\ estimatePdfNodeHeight(config'.nodes[i]) >= PDF_NODE_MIN_HEIGHT]_vars

\* C24, amended: only estimatePdfNodeHeight has a per-option increment: one
\* more option adds 16 to its height before flooring.  estimateNodeHeight of
\* the interactive view adds one row of 22 for hasOptions and does not depend
\* on the number of options.  Neither result is below the minimum of 110.
C24_PerOptionInPdfOnly ==
    [][\A i \in 1..Len(config.nodes) :
          (Called("updateNode") /\ gainedAnOption(i)) =>
             /\ contentHeight(config'.nodes[i]) = contentHeight(config.nodes[i])
             /\ contentHeight(config'.nodes[i])
                   = contentHeight([config'.nodes[i] EXCEPT !.hasOptions = FALSE]) + 22
             /\ pdfContentHeight(config'.nodes[i]) - pdfContentHeight(config.nodes[i]) = 16
             /\ estimateNodeHeight(config'.nodes[i]) >= 110
             /\ estimatePdfNodeHeight(config'.nodes[i]) >= 110
             /\ estimatePdfNodeHeight(config'.nodes[i]) = pdfContentHeight(config'.nodes[i])]_vars

\* C24 witness: the editor has just given a second option to a node that has
\* no text: the PDF height is 80 + 18 + 2 * 16, the height in the view the minimum
C24_Witness ==
    /\ lastCall.op = "updateNode"
    /\ hasNode(config.nodes, lastCall.arg)
    /\ findNode(config.nodes, lastCall.arg).hasOptions
    /\ Len(findNode(config.nodes, lastCall.arg).options) = 2
    /\ findNode(config.nodes, lastCall.arg).options[2].targetNodeId = EmptyId
    /\ estimatePdfNodeHeight(findNode(config.nodes, lastCall.arg)) = 130
    /\ estimateNodeHeight(findNode(config.nodes, lastCall.arg)) = 110

\* ------------------------------------------------------------ getChildNodes
\* the positions in the collection of the nodes whose parentId is p
childPositions(nodes, p) == {i \in 1..Len(nodes) : nodes[i].parentId = p}

\* the place of the node at position i among the children of p: one more than the
\* number of children with a smaller order, or an equal order and an earlier position
placeAmongChildren(nodes, p, i) ==
    1 + Cardinality({k \in childPositions(nodes, p) :
                        \/ nodes[k].order < nodes[i].order
                        \/ nodes[k].order = nodes[i].order /\ k < i})

\* C25: getChildNodes(nodes, p) returns exactly the nodes whose parentId equals
\* p, in ascending `order`, nodes of equal `order` in their collection order.
C25_ChildrenSortedStable ==
    \A p \in nodeIds(config.nodes) \cup {null, NoSuchId} :
        /\ Len(getChildNodes(config.nodes, p)) = Cardinality(childPositions(config.nodes, p))
        /\ \A i \in childPositions(config.nodes, p) :
              getChildNodes(config.nodes, p)[placeAmongChildren(config.nodes, p, i)]
                 = config.nodes[i]

\* C25 witness: a node has three children, the last two in the collection with
\* the same order, and getChildNodes returns them in collection order
C25_Witness ==
    \E p \in nodeIds(config.nodes) :
        \E i, k, m \in childPositions(config.nodes, p) :
            /\ i < k /\ k < m
            /\ config.nodes[i].order < config.nodes[k].order
            /\ config.nodes[k].order = config.nodes[m].order
            /\ getChildNodes(config.nodes, p)
                  = <<config.nodes[i], config.nodes[k], config.nodes[m]>>

\* ----------------------------------------------- corrupted parent pointers
\* C26: deleteNodeAndChildren terminates for every finite node collection and
\* node id, including collections whose parent pointers contain a cycle or a
\* self-parent: it is entered at most 2 * (number of nodes) + 1 times, removes
\* the given node and every node whose parent chain leads to it, and keeps
\* the others in their order.
C26_DeleteTerminatesOnCycles ==
    [][Called("deleteNodeAndChildren") =>
        /\ lastCall'.ret <= 2 * Len(config.nodes) + 1
        /\ ~hasNode(config'.nodes, lastCall'.arg)
        /\ config'.nodes =
              SelectSeq(config.nodes,
                        LAMBDA n : ~inSubtree(config.nodes, n.id, lastCall'.arg))]_vars

\* C26 witness: of a full collection one node was removed in two calls: the node
\* was its own parent and its id came up again as its own child
C26_Witness ==
    /\ lastCall.op = "deleteNodeAndChildren"
    /\ lastCall.ret = 2
    /\ Len(config.nodes) = MaxCorruptNodes - 1
    /\ \E i \in 1..Len(config.nodes) : config.nodes[i].parentId = config.nodes[i].id

\* ------------------------------------------------- the place of a new node
\* C27: in every configuration reachable by addChildNode, insertNodeBeforeId and
\* deleteNode calls, insertNodeBefore(t) makes the new node N take over t's place
\* among its former siblings: N.order = t.order, t keeps its order and becomes
\* N's only child, and getChildNodes of the former parent after the call is the
\* list before the call with t replaced by N at the same index.
C27_InsertTakesPlace ==
    [][(/\ Called("insertNodeBeforeId")
        /\ hasNode(config.nodes, lastCall'.arg)
        /\ ~isRootNode(findNode(config.nodes, lastCall'.arg))) =>
        LET t      == findNode(config.nodes, lastCall'.arg)
            N      == lastCall'.ret
            before == mapIds(getChildNodes(config.nodes, t.parentId))
        IN  /\ findNode(config'.nodes, N).order = t.order
            /\ findNode(config'.nodes, t.id).order = t.order
            /\ mapIds(getChildNodes(config'.nodes, N)) = <<t.id>>
            /\ mapIds(getChildNodes(config'.nodes, t.parentId))
                  = [k \in 1..Len(before) |-> IF before[k] = t.id THEN N ELSE before[k]]]_vars

C29_SelectionIsPresent ==
    selectedNodeId = null \/ hasNode(config.nodes, selectedNodeId)

\* C30: no mutation is lost when a handler invokes two callbacks of one render:
\* after addChildNode, addChildNode both new nodes are in config.nodes and in
\* the stored text, and after addChildNode, updateNode the new node is there
\* with the updated title
C30_NoMutationLost ==
    [][ /\ Called("addChildNode,addChildNode") =>
              /\ hasNode(config'.nodes, uuidCount + 1)
              /\ hasNode(config'.nodes, uuidCount + 2)
              /\ hasNode(jsonParse(storage'[1]).nodes, uuidCount + 1)
              /\ hasNode(jsonParse(storage'[1]).nodes, uuidCount + 2)
        /\ Called("addChildNode,updateNode") =>
              /\ hasNode(config'.nodes, uuidCount + 1)
              /\ findNode(config'.nodes, uuidCount + 1).title = "Neu"
              /\ hasNode(jsonParse(storage'[1]).nodes, uuidCount + 1)
      ]_vars

====
